---- MODULE Spec2Model ----
(***************************************************************************)
(* Model of the WITS trade-data extraction script (src/testfile.py).       *)
(*                                                                         *)
(* The script is one sequential pipeline: a nested loop over               *)
(* (reporter, year, flow, product) that obtains a workbook from the cache  *)
(* or the network, extracts a sheet, sums the kg rows per partner and      *)
(* the rest-of-world residual into two accumulators, then builds, filters, *)
(* renames, sorts and writes the output table.  The cache directory and    *)
(* the output files outlive a run, so the model covers several runs.       *)
(*                                                                         *)
(* Numbers are integers (quantities, values in 1000 USD); the EUR column   *)
(* is kept in thousandths (USD value times the rate in per mille).         *)
(* Strings that the code trims, lower-cases or orders are sequences of     *)
(* code points, see Chars.                                                 *)
(***************************************************************************)
EXTENDS Integers, Sequences, FiniteSets, TLC

VARIABLES
    BASE_PARTNERS,  \* the list of base partners (input, fixed during a behaviour)
    cache,          \* the cache directory: file name -> bytes, or NoFile
    out_run,        \* the run whose table the output .csv and .xlsx hold (0: no files)
    run,            \* number of the current run of the script
    prev,           \* how the previous run ended and which cache files it wrote
    pc,             \* position of the script: "loop", "build", "done", "failed"
    error,          \* the exception that ended the run, "none" otherwise
    pos,            \* index of the current iteration of the main loop
    qty_acc,        \* accumulator of quantities
    val1000_acc,    \* accumulator of trade values in 1000 USD
    excel_bytes,    \* the bytes obtained by the last iteration
    sums,           \* the per-partner sums of the last completed iteration
    out,            \* the final table of the run
    fetched,        \* cache file names whose URL was requested from the network in this run
    hits,           \* cache file names read from the cache in this run
    written,        \* cache file names written in this run
    df,             \* a sheet handed to the aggregator functions
    last_edit,      \* the last edit made to df
    fn_out,         \* results of the aggregator functions on df
    fn_base         \* results of the aggregator functions on the sheet before any edit

vars ==
    << BASE_PARTNERS, cache, out_run, run, prev, pc, error, pos,
       qty_acc, val1000_acc, excel_bytes, sums, out, fetched, hits, written,
       df, last_edit, fn_out, fn_base >>

progVars ==
    << BASE_PARTNERS, cache, out_run, run, prev, pc, error, pos,
       qty_acc, val1000_acc, excel_bytes, sums, out, fetched, hits, written >>

fnVars == << df, last_edit, fn_out, fn_base >>


(***************************************************************************)
(* Bounds of the model.                                                    *)
(***************************************************************************)
\* number of reporters taken from the head of REPORTERS
NumReporters == 2
\* number of years taken from the head of YEARS
NumYears == 1
\* number of product codes taken from the head of PRODUCTS
NumProducts == 2
\* number of consecutive runs of the script against the same cache directory
MaxRuns == 2
\* largest number of rows of a sheet handed to the aggregator functions
MaxRows == 2

Min(a, b) == IF a <= b THEN a ELSE b

Prefix(s, n) == SubSeq(s, 1, Min(n, Len(s)))

Range(s) == {s[i] : i \in 1..Len(s)}

(***************************************************************************)
(* Strings as sequences of code points.                                    *)
(***************************************************************************)
Chars(s) ==
    CASE s = "European Union" -> <<69, 117, 114, 111, 112, 101, 97, 110, 32, 85, 110, 105, 111, 110>>
      [] s = "China" -> <<67, 104, 105, 110, 97>>
      [] s = "Chile" -> <<67, 104, 105, 108, 101>>
      [] s = "Canada" -> <<67, 97, 110, 97, 100, 97>>
      [] s = "United States" -> <<85, 110, 105, 116, 101, 100, 32, 83, 116, 97, 116, 101, 115>>
      [] s = "Russian Federation" -> <<82, 117, 115, 115, 105, 97, 110, 32, 70, 101, 100, 101, 114, 97, 116, 105, 111, 110>>
      [] s = "Argentina" -> <<65, 114, 103, 101, 110, 116, 105, 110, 97>>
      [] s = "World" -> <<87, 111, 114, 108, 100>>
      [] s = "Rest of World" -> <<82, 101, 115, 116, 32, 111, 102, 32, 87, 111, 114, 108, 100>>
      [] s = "Austria" -> <<65, 117, 115, 116, 114, 105, 97>>
      [] s = "Belgium" -> <<66, 101, 108, 103, 105, 117, 109>>
      [] s = "Bulgaria" -> <<66, 117, 108, 103, 97, 114, 105, 97>>
      [] s = "Croatia" -> <<67, 114, 111, 97, 116, 105, 97>>
      [] s = "Cyprus" -> <<67, 121, 112, 114, 117, 115>>
      [] s = "Czech Republic" -> <<67, 122, 101, 99, 104, 32, 82, 101, 112, 117, 98, 108, 105, 99>>
      [] s = "Denmark" -> <<68, 101, 110, 109, 97, 114, 107>>
      [] s = "Estonia" -> <<69, 115, 116, 111, 110, 105, 97>>
      [] s = "Finland" -> <<70, 105, 110, 108, 97, 110, 100>>
      [] s = "France" -> <<70, 114, 97, 110, 99, 101>>
      [] s = "Germany" -> <<71, 101, 114, 109, 97, 110, 121>>
      [] s = "Greece" -> <<71, 114, 101, 101, 99, 101>>
      [] s = "Hungary" -> <<72, 117, 110, 103, 97, 114, 121>>
      [] s = "Ireland" -> <<73, 114, 101, 108, 97, 110, 100>>
      [] s = "Italy" -> <<73, 116, 97, 108, 121>>
      [] s = "Latvia" -> <<76, 97, 116, 118, 105, 97>>
      [] s = "Lithuania" -> <<76, 105, 116, 104, 117, 97, 110, 105, 97>>
      [] s = "Luxembourg" -> <<76, 117, 120, 101, 109, 98, 111, 117, 114, 103>>
      [] s = "Malta" -> <<77, 97, 108, 116, 97>>
      [] s = "Netherlands" -> <<78, 101, 116, 104, 101, 114, 108, 97, 110, 100, 115>>
      [] s = "Poland" -> <<80, 111, 108, 97, 110, 100>>
      [] s = "Portugal" -> <<80, 111, 114, 116, 117, 103, 97, 108>>
      [] s = "Romania" -> <<82, 111, 109, 97, 110, 105, 97>>
      [] s = "Slovak Republic" -> <<83, 108, 111, 118, 97, 107, 32, 82, 101, 112, 117, 98, 108, 105, 99>>
      [] s = "Slovenia" -> <<83, 108, 111, 118, 101, 110, 105, 97>>
      [] s = "Spain" -> <<83, 112, 97, 105, 110>>
      [] s = "Sweden" -> <<83, 119, 101, 100, 101, 110>>
      [] s = "Import" -> <<73, 109, 112, 111, 114, 116>>
      [] s = "Export" -> <<69, 120, 112, 111, 114, 116>>
      [] s = "Japan" -> <<74, 97, 112, 97, 110>>
      [] s = "Brazil" -> <<66, 114, 97, 122, 105, 108>>
      [] s = "kg" -> <<107, 103>>
      [] s = "Kg" -> <<75, 103>>
      [] s = "KG" -> <<75, 71>>
      [] s = "l" -> <<108>>
      [] s = "Item" -> <<73, 116, 101, 109>>
      [] s = "kgs" -> <<107, 103, 115>>

\* Python's str.strip() removes leading and trailing whitespace.
Whitespace == {9, 10, 11, 12, 13, 28, 29, 30, 31, 32}

RECURSIVE lstrip(_)
lstrip(c) ==
    IF c # <<>> /\ Head(c) \in Whitespace THEN lstrip(Tail(c)) ELSE c

RECURSIVE rstrip(_)
rstrip(c) ==
    IF c # <<>> /\ c[Len(c)] \in Whitespace
    THEN rstrip(SubSeq(c, 1, Len(c) - 1))
    ELSE c

strip(c) == rstrip(lstrip(c))

\* Python's str.lower() on the ASCII letters.
lower(c) == [i \in 1..Len(c) |-> IF c[i] \in 65..90 THEN c[i] + 32 ELSE c[i]]

\* Python's ordering of str values: lexicographic by code point.
RECURSIVE StrLess(_, _)
StrLess(a, b) ==
    IF b = <<>> THEN FALSE
    ELSE IF a = <<>> THEN TRUE
    ELSE IF Head(a) # Head(b) THEN Head(a) < Head(b)
    ELSE StrLess(Tail(a), Tail(b))

(***************************************************************************)
(* Inputs (src/testfile.py lines 9-54).                                    *)
(***************************************************************************)
REGION_LABEL_EU == "European Union"

ALL_REPORTERS ==
    << "European Union", "China", "Chile", "Canada", "United States",
       "Russian Federation", "Argentina" >>

REPORTERS == Prefix(ALL_REPORTERS, NumReporters)

reporter_code(r) ==
    CASE r = "European Union" -> "EUN"
      [] r = "China" -> "CHN"
      [] r = "Chile" -> "CHL"
      [] r = "Canada" -> "CAN"
      [] r = "United States" -> "USA"
      [] r = "Russian Federation" -> "RUS"
      [] r = "Argentina" -> "ARG"

ALL_BASE_PARTNERS ==
    << "United States", "China", "Russian Federation", "Canada", "Argentina", "Chile" >>


EU_COUNTRIES ==
    << "Austria", "Belgium", "Bulgaria", "Croatia", "Cyprus", "Czech Republic", "Denmark",
       "Estonia", "Finland", "France", "Germany", "Greece", "Hungary", "Ireland", "Italy",
       "Latvia", "Lithuania", "Luxembourg", "Malta", "Netherlands", "Poland", "Portugal",
       "Romania", "Slovak Republic", "Slovenia", "Spain", "Sweden" >>

ALL_YEARS == << 2020, 2021, 2022, 2023, 2024 >>

YEARS == Prefix(ALL_YEARS, NumYears)

FLOWS == << "I", "E" >>

ALL_PRODUCTS ==
    << "430110", "430120", "430130", "430140", "430150", "430160", "430170",
       "430180", "430190" >>

PRODUCTS == Prefix(ALL_PRODUCTS, NumProducts)

\* USD->EUR rates in per mille
USD_TO_EUR(year) ==
    CASE year = 2024 -> 924
      [] year = 2023 -> 924
      [] year = 2022 -> 951
      [] year = 2021 -> 846
      [] year = 2020 -> 877

USE_CACHE == TRUE

PARTNERS == BASE_PARTNERS \o << "World" >>

EXCLUDE_FOR_ROW ==
    Range(BASE_PARTNERS) \cup {REGION_LABEL_EU, "World"} \cup Range(EU_COUNTRIES)

NoFile == "NoFile"

(***************************************************************************)
(* Workbooks and sheets.  A cell of a numeric column is a number or a text *)
(* that pandas cannot parse; Partner and Quantity Unit cells are strings.  *)
(***************************************************************************)
Num(n) == [num |-> TRUE, v |-> n]

Txt == [num |-> FALSE, v |-> 0]

Pad(c) == << 32 >> \o c \o << 32, 9 >>

Row(p, q, u, v) == [Partner |-> p, Quantity |-> q, Unit |-> u, Value |-> v]

AllColumns ==
    {"Reporter", "Partner", "Quantity", "Quantity Unit", "Trade Value 1000USD"}

SheetA ==
    [columns |-> AllColumns,
     rows |-> << Row(Chars("World"), Num(500), Chars("Kg"), Num(300)),
                 Row(Pad(Chars("China")), Num(100), Chars("Kg"), Num(50)),
                 Row(Chars("Japan"), Num(10), Chars("KG"), Num(5)),
                 Row(Chars("France"), Num(7), Chars("kg"), Num(4)),
                 Row(Chars("European Union"), Num(20), Chars("Kg"), Num(11)),
                 Row(Chars("Brazil"), Num(9), Chars("l"), Num(2)),
                 Row(Chars("Chile"), Txt, Chars("Kg"), Num(6)) >>]

SheetB ==
    [columns |-> AllColumns,
     rows |-> << Row(Chars("United States"), Num(40), Pad(Chars("kg")), Num(21)),
                 Row(Chars("China"), Num(3), Chars("Item"), Num(8)),
                 Row(Chars("China"), Num(30), Chars("Kg"), Num(13)),
                 Row(Pad(Chars("World")), Num(200), Chars("Kg"), Num(90)),
                 Row(Chars("Brazil"), Num(60), Chars("Kg"), Txt),
                 Row(Pad(Chars("Japan")), Num(1), Chars("Kg"), Num(1)) >>]

SheetC ==
    [columns |-> AllColumns,
     rows |-> << Row(Chars("China"), Num(15), Chars("Kg"), Num(17)),
                 Row(Chars("China"), Num(2), Chars("KG"), Num(1)),
                 Row(Chars("Argentina"), Num(4), Chars("kgs"), Num(2)),
                 Row(Chars("Spain"), Num(5), Chars("Kg"), Num(3)) >>]

SheetSummary ==
    [columns |-> {"Reporter", "Partner"}, rows |-> << >>]

SheetNoUnit ==
    [columns |-> AllColumns \ {"Quantity Unit"},
     rows |-> << Row(Chars("China"), Num(1), Chars("Kg"), Num(1)) >>]

\* The bytes of a response (or cache file) and the workbook they encode.
Workbook(bytes) ==
    CASE bytes = "WB_A" ->
            [excel |-> TRUE,
             sheets |-> << [name |-> "Summary", data |-> SheetSummary],
                           [name |-> "By-HS6Product", data |-> SheetA] >>]
      [] bytes = "WB_B" ->
            [excel |-> TRUE, sheets |-> << [name |-> "Sheet1", data |-> SheetB] >>]
      [] bytes = "WB_C" ->
            [excel |-> TRUE,
             sheets |-> << [name |-> "By-HS6Product", data |-> SheetC],
                           [name |-> "Summary", data |-> SheetSummary] >>]
      [] bytes = "WB_NoUnit" ->
            [excel |-> TRUE,
             sheets |-> << [name |-> "By-HS6Product", data |-> SheetNoUnit] >>]
      [] bytes = "HTML" ->
            [excel |-> FALSE, sheets |-> << >>]

ServedBooks == << "WB_A", "WB_B", "WB_C" >>

DamagedBodies == {"WB_NoUnit", "HTML"}

(***************************************************************************)
(* Helpers (src/testfile.py lines 59-137).                                 *)
(***************************************************************************)
build_url(code, year, flow, product) == << code, year, flow, product >>

cache_path(code, year, flow, product) == << code, year, flow, product >>

\* read_excel fails on bytes that are no workbook; a missing "By-HS6Product"
\* sheet is a ValueError, answered by reading the first sheet.
CanRead(bytes) == Workbook(bytes).excel

read_by_hs6product_sheet(bytes) ==
    LET wb == Workbook(bytes).sheets
        named == {i \in 1..Len(wb) : wb[i].name = "By-HS6Product"}
    IN  IF named # {}
        THEN wb[CHOOSE i \in named : \A j \in named : i <= j].data
        ELSE wb[1].data

required == {"Partner", "Quantity", "Quantity Unit", "Trade Value 1000USD"}

MissingColumns(d) == required \ d.columns

to_numeric(c) == IF c.num THEN c.v ELSE 0

\* the unit is only tested for its first two letters
IsKg_Prefix(r) ==
    Len(r.Unit) >= 2 /\ lower(SubSeq(r.Unit, 1, 2)) = Chars("kg")

IsKg(r) == lower(r.Unit) = Chars("kg")

_prep_kg_rows(d) ==
    LET stripped == [i \in 1..Len(d.rows) |->
                        [d.rows[i] EXCEPT !.Partner = strip(@), !.Unit = strip(@)]]
        kg == SelectSeq(stripped, IsKg)
    IN  [i \in 1..Len(kg) |->
            [kg[i] EXCEPT !.Quantity = to_numeric(@), !.Value = to_numeric(@)]]

RECURSIVE SumColumn(_, _)
SumColumn(rows, col) ==
    IF rows = << >> THEN 0 ELSE rows[1][col] + SumColumn(Tail(rows), col)

\* lines 105-117, on the prepared rows
SumsByPartner(k, partners, names) ==
    [p \in Range(partners) |->
        LET Mine(r) == r.Partner \in names /\ r.Partner = Chars(p)
        IN  << SumColumn(SelectSeq(k, Mine), "Quantity"),
               SumColumn(SelectSeq(k, Mine), "Value") >>]

get_qty_and_value_sums_for_partners(d, partners) ==
    SumsByPartner(_prep_kg_rows(d), partners, {Chars(p) : p \in Range(partners)})

\* lines 130-131, on the prepared rows
SumOfOthers(k, names) ==
    LET Kept(r) == r.Partner \notin names
    IN  << SumColumn(SelectSeq(k, Kept), "Quantity"),
           SumColumn(SelectSeq(k, Kept), "Value") >>

get_rest_of_world_sum(d, exclude_partners) ==
    SumOfOthers(_prep_kg_rows(d), {Chars(p) : p \in exclude_partners})

\* the flow is not swapped
inverse_flow_Same(flow) == flow

inverse_flow(flow) == IF flow = "I" THEN "E" ELSE "I"

flow_label(flow) == IF flow = "I" THEN "Import" ELSE "Export"

(***************************************************************************)
(* Main aggregation (src/testfile.py lines 142-184).                       *)
(***************************************************************************)
AccKeys ==
    {<< r, p, y, f >> : r \in Range(REPORTERS), p \in Range(PARTNERS),
                        y \in Range(YEARS), f \in Range(FLOWS)}

ZeroAcc == [k \in AccKeys |-> 0]

NumIterations == Len(REPORTERS) * Len(YEARS) * Len(FLOWS) * Len(PRODUCTS)

\* the loop variables (reporter_label, year, flow, product) of iteration i
LoopKey(i) ==
    LET j == i - 1
        np == Len(PRODUCTS)
        nf == Len(FLOWS)
        ny == Len(YEARS)
    IN  << REPORTERS[(j \div (np * nf * ny)) + 1],
           YEARS[((j \div (np * nf)) % ny) + 1],
           FLOWS[((j \div np) % nf) + 1],
           PRODUCTS[(j % np) + 1] >>

PathOf(i) ==
    LET k == LoopKey(i) IN cache_path(reporter_code(k[1]), k[2], k[3], k[4])

UrlOf(i) ==
    LET k == LoopKey(i) IN build_url(reporter_code(k[1]), k[2], k[3], k[4])

CachePaths == {PathOf(i) : i \in 1..NumIterations}

IndexOf(path) == CHOOSE i \in 1..NumIterations : PathOf(i) = path

\* "World" keeps the sum of the sheet's own "World" rows
SheetSums_KeepWorldRow(d) == get_qty_and_value_sums_for_partners(d, PARTNERS)

\* lines 176-180: the sums of one sheet, "World" replaced by the rest of world
SheetSums(d) ==
    LET s == get_qty_and_value_sums_for_partners(d, PARTNERS)
        row == get_rest_of_world_sum(d, EXCLUDE_FOR_ROW)
    IN  [s EXCEPT !["World"] = row]

\* the sums are assigned to the accumulator, not added
Accumulate_Overwrite(acc, k, s, col) ==
    [key \in DOMAIN acc |->
        IF key[1] = k[1] /\ key[3] = k[2] /\ key[4] = k[3] /\ key[2] \in DOMAIN s
        THEN s[key[2]][col]
        ELSE acc[key]]

\* lines 182-184
Accumulate(acc, k, s, col) ==
    [key \in DOMAIN acc |->
        IF key[1] = k[1] /\ key[3] = k[2] /\ key[4] = k[3] /\ key[2] \in DOMAIN s
        THEN acc[key] + s[key[2]][col]
        ELSE acc[key]]

\* a sheet that cannot be read or lacks columns is skipped and the loop goes on
Process_SkipBadFile(bytes) ==
    /\ excel_bytes' = bytes
    /\ pos' = pos + 1
    /\ pc' = IF pos = NumIterations THEN "build" ELSE "loop"
    /\ IF ~ CanRead(bytes)
       THEN /\ error' = "ValueError: read_excel"
            /\ UNCHANGED << sums, qty_acc, val1000_acc >>
       ELSE LET d == read_by_hs6product_sheet(bytes) IN
            IF MissingColumns(d) # {}
            THEN /\ error' = "ValueError: Missing expected columns"
                 /\ UNCHANGED << sums, qty_acc, val1000_acc >>
            ELSE /\ sums' = SheetSums(d)
                 /\ qty_acc' = Accumulate(qty_acc, LoopKey(pos), sums', 1)
                 /\ val1000_acc' = Accumulate(val1000_acc, LoopKey(pos), sums', 2)
                 /\ error' = "none"

\* lines 173-184 of one iteration, once the bytes are at hand
Process(bytes) ==
    /\ excel_bytes' = bytes
    /\ IF ~ CanRead(bytes)
       THEN /\ pc' = "failed"
            /\ error' = "ValueError: read_excel"
            /\ UNCHANGED << pos, sums, qty_acc, val1000_acc >>
       ELSE LET d == read_by_hs6product_sheet(bytes) IN
            IF MissingColumns(d) # {}
            THEN /\ pc' = "failed"
                 /\ error' = "ValueError: Missing expected columns"
                 /\ UNCHANGED << pos, sums, qty_acc, val1000_acc >>
            ELSE /\ sums' = SheetSums(d)
                 /\ qty_acc' = Accumulate(qty_acc, LoopKey(pos), sums', 1)
                 /\ val1000_acc' = Accumulate(val1000_acc, LoopKey(pos), sums', 2)
                 /\ pos' = pos + 1
                 /\ pc' = IF pos = NumIterations THEN "build" ELSE "loop"
                 /\ error' = "none"

\* the workbook the server holds for a URL: the served workbooks in rotation
wits(url) == ServedBooks[(IndexOf(url) % Len(ServedBooks)) + 1]

\* what a GET of the URL can bring: a failure (transport error or status >= 400),
\* the workbook the server holds, or a success status with a damaged body
Responses(url) == {"HTTPError", wits(url)} \cup DamagedBodies

\* the cache file is never looked for
CacheExists_Never(path) == FALSE

\* line 166
CacheExists(path) == USE_CACHE /\ cache[path] # NoFile

\* lines 163-184: one iteration of the main loop
LoopIteration ==
    /\ pc = "loop"
    /\ LET path == PathOf(pos) IN
       IF CacheExists(path)
       THEN /\ hits' = hits \cup {path}
            /\ UNCHANGED << cache, fetched, written >>
            /\ Process(cache[path])
       ELSE \E resp \in Responses(UrlOf(pos)) :
            /\ fetched' = fetched \cup {path}
            /\ UNCHANGED hits
            /\ IF resp = "HTTPError"
               THEN /\ pc' = "failed"
                    /\ error' = "HTTPError"
                    /\ UNCHANGED << cache, written, excel_bytes, pos, sums,
                                    qty_acc, val1000_acc >>
               ELSE /\ IF USE_CACHE
                       THEN /\ cache' = [cache EXCEPT ![path] = resp]
                            /\ written' = written \cup {path}
                       ELSE UNCHANGED << cache, written >>
                    /\ Process(resp)
    /\ UNCHANGED << BASE_PARTNERS, out_run, run, prev, out >>
    /\ UNCHANGED fnVars

(***************************************************************************)
(* Final table (src/testfile.py lines 191-255).                            *)
(***************************************************************************)
OutRow(reporter, partner, year, flow, qty, val1000) ==
    [Reporter |-> reporter,
     Partner |-> partner,
     Tradeflow |-> flow_label(flow),
     Year |-> year,
     Quantity |-> qty,
     USD |-> val1000 * 1000,
     EUR |-> val1000 * 1000 * USD_TO_EUR(year)]

\* Part (1), lines 194-212
PrimaryRows ==
    LET np == Len(PARTNERS)
        ny == Len(YEARS)
        nf == Len(FLOWS)
    IN  [i \in 1..(Len(REPORTERS) * np * ny * nf) |->
            LET j == i - 1
                r == REPORTERS[(j \div (nf * ny * np)) + 1]
                p == PARTNERS[((j \div (nf * ny)) % np) + 1]
                y == YEARS[((j \div nf) % ny) + 1]
                f == FLOWS[(j % nf) + 1]
            IN  OutRow(r, p, y, f, qty_acc[<< r, p, y, f >>],
                       val1000_acc[<< r, p, y, f >>])]

NotEU(r) == r # REGION_LABEL_EU

\* the accumulator key read for the mirrored row of (reporter, year, flow)
MirrorKey(reporter, year, flow) ==
    << REGION_LABEL_EU, reporter, year, inverse_flow(flow) >>

\* Part (2), lines 215-242
MirroredRows ==
    LET rs == SelectSeq(REPORTERS, NotEU)
        ny == Len(YEARS)
        nf == Len(FLOWS)
    IN  [i \in 1..(Len(rs) * ny * nf) |->
            LET j == i - 1
                r == rs[(j \div (nf * ny)) + 1]
                y == YEARS[((j \div nf) % ny) + 1]
                f == FLOWS[(j % nf) + 1]
            IN  OutRow(r, REGION_LABEL_EU, y, f,
                       qty_acc[MirrorKey(r, y, f)], val1000_acc[MirrorKey(r, y, f)])]

\* indexing a dict by a key it does not hold raises KeyError
MirrorKeyError ==
    \E r \in Range(REPORTERS), y \in Range(YEARS), f \in Range(FLOWS) :
        NotEU(r) /\ MirrorKey(r, y, f) \notin DOMAIN qty_acc

\* every row is kept
NotSelfPair_Always(row) == TRUE

\* line 247
NotSelfPair(row) == row.Reporter # row.Partner

\* the filter is not applied
DropSelfPairs_None(rows) == rows

DropSelfPairs(rows) == SelectSeq(rows, NotSelfPair)

\* line 250
RenameWorld(rows) ==
    [i \in 1..Len(rows) |->
        IF rows[i].Partner = "World"
        THEN [rows[i] EXCEPT !.Partner = "Rest of World"]
        ELSE rows[i]]

\* the values of a string column in Python's ascending order
RECURSIVE SortedLabels(_)
SortedLabels(S) ==
    IF S = {} THEN << >>
    ELSE LET m == CHOOSE x \in S : \A y \in S : ~ StrLess(Chars(y), Chars(x))
         IN  << m >> \o SortedLabels(S \ {m})

\* the values of an integer column in ascending order
RECURSIVE SortedInts(_)
SortedInts(S) ==
    IF S = {} THEN << >>
    ELSE LET m == CHOOSE x \in S : \A y \in S : x <= y
         IN  << m >> \o SortedInts(S \ {m})

RECURSIVE Concat(_)
Concat(seqs) == IF seqs = << >> THEN << >> ELSE Head(seqs) \o Concat(Tail(seqs))

SortByTradeflow(rows) ==
    LET fs == SortedLabels({rows[i].Tradeflow : i \in 1..Len(rows)})
    IN  Concat([k \in 1..Len(fs) |->
                  LET Mine(row) == row.Tradeflow = fs[k] IN SelectSeq(rows, Mine)])

SortByYear(rows) ==
    LET ys == SortedInts({rows[i].Year : i \in 1..Len(rows)})
    IN  Concat([k \in 1..Len(ys) |->
                  LET Mine(row) == row.Year = ys[k]
                  IN  SortByTradeflow(SelectSeq(rows, Mine))])

SortByPartner(rows) ==
    LET ps == SortedLabels({rows[i].Partner : i \in 1..Len(rows)})
    IN  Concat([k \in 1..Len(ps) |->
                  LET Mine(row) == row.Partner = ps[k]
                  IN  SortByYear(SelectSeq(rows, Mine))])

\* sort_values(["Reporter", "Partner", "Year", "Tradeflow"]): the rows grouped
\* by the first column in ascending order, each group ordered by the next
\* columns, rows of equal keys in their given order
sort_values(rows) ==
    LET rs == SortedLabels({rows[i].Reporter : i \in 1..Len(rows)})
    IN  Concat([k \in 1..Len(rs) |->
                  LET Mine(row) == row.Reporter = rs[k]
                  IN  SortByPartner(SelectSeq(rows, Mine))])

\* the rows are sorted before "World" is renamed
FinalTable_SortBeforeRename ==
    RenameWorld(sort_values(DropSelfPairs(PrimaryRows \o MirroredRows)))

\* lines 244-252
FinalTable == sort_values(RenameWorld(DropSelfPairs(PrimaryRows \o MirroredRows)))

\* the accumulators are read with a default of zero (dict.get(key, 0.0))
WithDefault(acc) ==
    [key \in DOMAIN acc \cup
              {MirrorKey(r, y, f) : r \in Range(REPORTERS), y \in Range(YEARS),
                                    f \in Range(FLOWS)} |->
        IF key \in DOMAIN acc THEN acc[key] ELSE 0]

BuildTable_DefaultZero ==
    /\ pc = "build"
    /\ LET q == WithDefault(qty_acc)
           v == WithDefault(val1000_acc)
           rs == SelectSeq(REPORTERS, NotEU)
           ny == Len(YEARS)
           nf == Len(FLOWS)
           mirrored ==
               [i \in 1..(Len(rs) * ny * nf) |->
                   LET j == i - 1
                       r == rs[(j \div (nf * ny)) + 1]
                       y == YEARS[((j \div nf) % ny) + 1]
                       f == FLOWS[(j % nf) + 1]
                   IN  OutRow(r, REGION_LABEL_EU, y, f,
                              q[MirrorKey(r, y, f)], v[MirrorKey(r, y, f)])]
       IN  out' = sort_values(RenameWorld(DropSelfPairs(PrimaryRows \o mirrored)))
    /\ out_run' = run
    /\ pc' = "done"
    /\ error' = "none"
    /\ UNCHANGED << BASE_PARTNERS, cache, run, prev, pos, qty_acc, val1000_acc,
                    excel_bytes, sums, fetched, hits, written >>
    /\ UNCHANGED fnVars

\* lines 191-255: build the table and write the two output files
BuildTable ==
    /\ pc = "build"
    /\ IF MirrorKeyError
       THEN /\ pc' = "failed"
            /\ error' = "KeyError"
            /\ UNCHANGED << out, out_run >>
       ELSE /\ out' = FinalTable
            /\ out_run' = run
            /\ pc' = "done"
            /\ error' = "none"
    /\ UNCHANGED << BASE_PARTNERS, cache, run, prev, pos, qty_acc, val1000_acc,
                    excel_bytes, sums, fetched, hits, written >>
    /\ UNCHANGED fnVars

(***************************************************************************)
(* The script is started again: the process state is fresh, the cache      *)
(* directory and the output files are what the earlier runs left.          *)
(***************************************************************************)
StartRun ==
    /\ pc \in {"done", "failed"}
    /\ run < MaxRuns
    /\ run' = run + 1
    /\ prev' = [error |-> error, written |-> written]
    /\ pc' = "loop"
    /\ error' = "none"
    /\ pos' = 1
    /\ qty_acc' = ZeroAcc
    /\ val1000_acc' = ZeroAcc
    /\ excel_bytes' = NoFile
    /\ sums' = << >>
    /\ out' = << >>
    /\ fetched' = {}
    /\ hits' = {}
    /\ written' = {}
    /\ UNCHANGED << BASE_PARTNERS, cache, out_run >>
    /\ UNCHANGED fnVars

InitProcess ==
    /\ run = 1
    /\ prev = [error |-> "none", written |-> {}]
    /\ pc = "loop"
    /\ error = "none"
    /\ pos = 1
    /\ qty_acc = ZeroAcc
    /\ val1000_acc = ZeroAcc
    /\ excel_bytes = NoFile
    /\ sums = << >>
    /\ out = << >>
    /\ fetched = {}
    /\ hits = {}
    /\ written = {}
    /\ cache = [path \in CachePaths |-> NoFile]
    /\ out_run = 0

InitFnIdle ==
    /\ df = << >>
    /\ last_edit = "none"
    /\ fn_out = << >>
    /\ fn_base = << >>

Init ==
    /\ BASE_PARTNERS = ALL_BASE_PARTNERS
    /\ InitProcess
    /\ InitFnIdle

Next == LoopIteration \/ BuildTable \/ StartRun

Spec == Init /\ [][Next]_vars


(***************************************************************************)
(* The aggregator functions on arbitrary small sheets: the sheet is drawn  *)
(* from a bounded set, rows whose unit is not kg are inserted, deleted or  *)
(* changed, and the functions are applied after every edit.                *)
(***************************************************************************)
FnPartnerCells == {Pad(Chars("China")), Chars("Japan")}

FnKgUnitCells == {Chars("Kg"), Pad(Chars("KG"))}

FnOtherUnitCells == {Chars("l"), Chars("kgs")}

FnQuantityCells == {Num(2), Txt}

FnValueCells == {Num(3)}

FnRows ==
    {Row(p, q, u, v) : p \in FnPartnerCells, q \in FnQuantityCells,
                       u \in FnKgUnitCells \cup FnOtherUnitCells, v \in FnValueCells}

FnOtherRows == {r \in FnRows : r.Unit \in FnOtherUnitCells}

FnSheets == UNION {[1..n -> FnRows] : n \in 0..MaxRows}

Frame(rows) == [columns |-> AllColumns, rows |-> rows]

\* lines 176-179 applied to one sheet
Aggregate(rows) ==
    [sums |-> get_qty_and_value_sums_for_partners(Frame(rows), PARTNERS),
     rest |-> get_rest_of_world_sum(Frame(rows), EXCLUDE_FOR_ROW)]

InsertAt(rows, i, r) == SubSeq(rows, 1, i - 1) \o << r >> \o SubSeq(rows, i, Len(rows))

RemoveAt(rows, i) == SubSeq(rows, 1, i - 1) \o SubSeq(rows, i + 1, Len(rows))

InsertOtherRow ==
    /\ Len(df) < MaxRows
    /\ \E i \in 1..(Len(df) + 1), r \in FnOtherRows :
        df' = InsertAt(df, i, r)
    /\ last_edit' = "insert"
    /\ fn_out' = Aggregate(df')
    /\ UNCHANGED fn_base
    /\ UNCHANGED progVars

DeleteOtherRow ==
    /\ \E i \in 1..Len(df) :
        /\ df[i] \in FnOtherRows
        /\ df' = RemoveAt(df, i)
    /\ last_edit' = "delete"
    /\ fn_out' = Aggregate(df')
    /\ UNCHANGED fn_base
    /\ UNCHANGED progVars

ChangeOtherRow ==
    /\ \E i \in 1..Len(df), r \in FnOtherRows :
        /\ df[i] \in FnOtherRows
        /\ df[i] # r
        /\ df' = [df EXCEPT ![i] = r]
    /\ last_edit' = "change"
    /\ fn_out' = Aggregate(df')
    /\ UNCHANGED fn_base
    /\ UNCHANGED progVars

InitFn ==
    /\ BASE_PARTNERS = ALL_BASE_PARTNERS
    /\ InitProcess
    /\ df \in FnSheets
    /\ last_edit = "none"
    /\ fn_out = Aggregate(df)
    /\ fn_base = fn_out

NextFn == InsertOtherRow \/ DeleteOtherRow \/ ChangeOtherRow

SpecFn == InitFn /\ [][NextFn]_vars

(***************************************************************************)
(* The script under other inputs: BASE_PARTNERS with one entry left out.   *)
(***************************************************************************)
BasePartnerChoices ==
    {ALL_BASE_PARTNERS} \cup
    {RemoveAt(ALL_BASE_PARTNERS, i) : i \in 1..Len(ALL_BASE_PARTNERS)}

InitCfg ==
    /\ BASE_PARTNERS \in BasePartnerChoices
    /\ InitProcess
    /\ InitFnIdle

NextCfg == LoopIteration \/ BuildTable

SpecCfg == InitCfg /\ [][NextCfg]_vars


(***************************************************************************)
(* Properties.                                                             *)
(***************************************************************************)
RECURSIVE SetSum(_, _)
SetSum(S, val) ==
    IF S = {} THEN 0
    ELSE LET x == CHOOSE y \in S : TRUE IN val[x] + SetSum(S \ {x}, val)

\* the run has completed at least one iteration and has not been aborted
IterationDone == pc \in {"loop", "build", "done"} /\ pos > 1

\* the table has been built and written by this run
TableWritten == pc = "done" /\ out_run = run

KgRowsOf(d) ==
    {i \in 1..Len(d.rows) : lower(strip(d.rows[i].Unit)) = << 107, 103 >>}

ExcludedLabels ==
    {Chars(p) : p \in {"United States", "China", "Russian Federation", "Canada",
                       "Argentina", "Chile", "World", "European Union"}
                      \cup Range(EU_COUNTRIES)}

KgTotal(d, S, col) ==
    SetSum(S, [i \in S |-> to_numeric(d.rows[i][col])])

\* C1: for every spreadsheet processed in the main loop, the pair stored under
\* "World" is the sum over the kg rows whose trimmed partner label is not in the
\* exclusion set, which is the kg total over all partners minus the kg total of
\* the excluded partners.
C1_RestOfWorldExcludes ==
    IterationDone =>
        LET d == read_by_hs6product_sheet(excel_bytes)
            kg == KgRowsOf(d)
            excl == {i \in kg : strip(d.rows[i].Partner) \in ExcludedLabels}
        IN  /\ sums["World"] = << KgTotal(d, kg \ excl, "Quantity"),
                                  KgTotal(d, kg \ excl, "Value") >>
            /\ sums["World"][1] = KgTotal(d, kg, "Quantity") - KgTotal(d, excl, "Quantity")
            /\ sums["World"][2] = KgTotal(d, kg, "Value") - KgTotal(d, excl, "Value")

\* a processed sheet with a "World" aggregate row, rows of base partners, of the
\* European Union and of a member state, and one counted partner (Japan)
C1_Witness ==
    /\ IterationDone
    /\ excel_bytes = "WB_A"
    /\ sums["World"] = << 10, 5 >>
    /\ sums["China"] = << 100, 50 >>

Swap(flow) == CASE flow = "I" -> "E" [] flow = "E" -> "I"

Label(flow) == CASE flow = "I" -> "Import" [] flow = "E" -> "Export"

\* C2: for every non-EU reporter R, year Y and flow F the output holds a row
\* (R, "European Union", label(F), Y) whose quantity is
\* qty_acc[("European Union", R, Y, inverse(F))] and whose USD value is
\* val1000_acc of that key times 1000.
C2_MirroredRows ==
    TableWritten =>
        \A r \in Range(REPORTERS) \ {"European Union"}, y \in Range(YEARS), f \in {"I", "E"} :
            \E i \in 1..Len(out) :
                /\ out[i].Reporter = r
                /\ out[i].Partner = "European Union"
                /\ out[i].Tradeflow = Label(f)
                /\ out[i].Year = y
                /\ out[i].Quantity = qty_acc[<< "European Union", r, y, Swap(f) >>]
                /\ out[i].USD = val1000_acc[<< "European Union", r, y, Swap(f) >>] * 1000

\* a written table in which the European Union's imports from and exports to
\* China differ, so the direction of the mirroring shows
C2_Witness ==
    /\ TableWritten
    /\ \E y \in Range(YEARS) :
        /\ qty_acc[<< "European Union", "China", y, "I" >>]
             # qty_acc[<< "European Union", "China", y, "E" >>]
        /\ val1000_acc[<< "European Union", "China", y, "I" >>]
             # val1000_acc[<< "European Union", "China", y, "E" >>]
        /\ qty_acc[<< "European Union", "China", y, "I" >>] > 0

SeqSum(q) == SetSum(DOMAIN q, q)

\* per product of the group (reporter, year, flow), the (quantity, value) pair
\* of each partner, from the workbook the loop processed for that product
PairsOf(s, ps) == << >> \o [j \in 1..Len(ps) |-> s[ps[j]]]

GroupContributions(r, y, f, ps) ==
    << >> \o [i \in 1..Len(PRODUCTS) |->
                PairsOf(SheetSums(read_by_hs6product_sheet(
                            cache[cache_path(reporter_code(r), y, f, PRODUCTS[i])])),
                        ps)]

GroupAdds(r, y, f, ps, contrib) ==
    \A j \in 1..Len(ps) :
        /\ qty_acc[<< r, ps[j], y, f >>]
             = SeqSum([i \in 1..Len(PRODUCTS) |-> contrib[i][j][1]])
        /\ val1000_acc[<< r, ps[j], y, f >>]
             = SeqSum([i \in 1..Len(PRODUCTS) |-> contrib[i][j][2]])

\* C3: after the aggregation loop, every accumulator entry
\* (reporter, partner, year, flow) is the sum over the configured products of
\* that partner's contribution from the (reporter, year, flow, product)
\* spreadsheet, and the accumulators hold exactly the keys of
\* reporters x (base partners + "World") x years x flows.
C3_Additivity ==
    pc \in {"build", "done"} =>
        /\ DOMAIN qty_acc =
             Range(REPORTERS) \X (Range(BASE_PARTNERS) \cup {"World"}) \X Range(YEARS) \X {"I", "E"}
        /\ DOMAIN val1000_acc = DOMAIN qty_acc
        /\ \A r \in Range(REPORTERS), y \in Range(YEARS), f \in {"I", "E"} :
            GroupAdds(r, y, f, BASE_PARTNERS \o << "World" >>,
                      GroupContributions(r, y, f, BASE_PARTNERS \o << "World" >>))

\* the loop is complete and one entry is the sum of two different non-zero
\* contributions (100 kg from one product's sheet, 30 kg from another's)
C3_Witness ==
    /\ pc = "build"
    /\ Len(PRODUCTS) >= 2
    /\ \E r \in Range(REPORTERS), y \in Range(YEARS), f \in {"I", "E"} :
        /\ cache[cache_path(reporter_code(r), y, f, PRODUCTS[1])] = "WB_A"
        /\ cache[cache_path(reporter_code(r), y, f, PRODUCTS[2])] = "WB_B"
        /\ qty_acc[<< r, "China", y, f >>] = 130

\* C4: rows whose trimmed unit is not "kg" (compared case-insensitively) never
\* contribute: inserting, deleting or changing such rows leaves the results of
\* sum-for-partners and of rest-of-world-sum unchanged.
C4_OnlyKgRowsCount == fn_out = fn_base

\* a sheet that holds a kg row and, after an edit, a row in another unit with
\* numeric quantity and value
C4_Witness ==
    /\ last_edit \in {"insert", "change"}
    /\ \E i \in 1..Len(df) : df[i].Unit \in FnKgUnitCells /\ df[i].Quantity.num
    /\ \E i \in 1..Len(df) : df[i].Unit \in FnOtherUnitCells /\ df[i].Quantity.num
    /\ fn_out.rest # << 0, 0 >>

\* C5: with caching enabled, an iteration whose cache file exists uses the
\* file's bytes and makes no network request for that key, and a step never
\* changes or removes a cache file that exists (a file is written only where
\* none existed).
C5_CacheWriteOnce ==
    [][ /\ \A path \in CachePaths : cache[path] # NoFile => cache'[path] = cache[path]
        /\ (pc = "loop" /\ cache[PathOf(pos)] # NoFile) =>
              /\ excel_bytes' = cache[PathOf(pos)]
              /\ PathOf(pos) \notin fetched'
              /\ PathOf(pos) \in hits'
        /\ \A path \in written' \ written : cache[path] = NoFile ]_vars

\* a later run has read one file from the cache and downloaded another
C5_Witness ==
    /\ run > 1
    /\ hits # {}
    /\ written # {}
    /\ \A path \in hits : path \notin fetched

\* C6: a failed fetch, extraction or column check halts the run: the only step
\* after it is a new run (no later iteration, no retry), this run writes no
\* output, and the cache files the failed run wrote still exist and are read
\* from the cache, without a network request, by the next run.
C6_FailureHaltsRun ==
    /\ [](error # "none" => pc = "failed" /\ out_run # run)
    /\ [][pc = "failed" =>
            /\ run' = run + 1
            /\ cache' = cache
            /\ out_run' = out_run]_vars
    /\ [](prev.error # "none" =>
            \A path \in prev.written :
                /\ cache[path] # NoFile
                /\ path \notin fetched
                /\ (pc # "loop" \/ \E i \in 1..(pos - 1) : PathOf(i) = path) => path \in hits)

\* a run that failed on the network after writing cache files, followed by a run
\* that read them all and completed
C6_Witness ==
    /\ run = 2
    /\ prev.error = "HTTPError"
    /\ Cardinality(prev.written) >= 2
    /\ prev.written \subseteq hits
    /\ pc = "done"

\* C7: no row of the final table has Reporter equal to Partner: the primary rows
\* of a reporter paired with itself are removed, and no mirrored row is
\* generated for the European Union reporter.
C7_NoSelfPair ==
    TableWritten =>
        /\ \A i \in 1..Len(out) : out[i].Reporter # out[i].Partner
        /\ \A i \in 1..Len(MirroredRows) : MirroredRows[i].Reporter # "European Union"

\* the table is written and the primary rows included a China/China row
C7_Witness ==
    /\ TableWritten
    /\ \E i \in 1..Len(PrimaryRows) :
        PrimaryRows[i].Reporter = "China" /\ PrimaryRows[i].Partner = "China"
    /\ \E i \in 1..Len(out) : out[i].Reporter = "China"

StrLE(a, b) == a = b \/ StrLess(Chars(a), Chars(b))

KeyLE(a, b) ==
    \/ a.Reporter # b.Reporter /\ StrLE(a.Reporter, b.Reporter)
    \/ /\ a.Reporter = b.Reporter
       /\ \/ a.Partner # b.Partner /\ StrLE(a.Partner, b.Partner)
          \/ /\ a.Partner = b.Partner
             /\ \/ a.Year < b.Year
                \/ a.Year = b.Year /\ StrLE(a.Tradeflow, b.Tradeflow)

\* C8: the rows of the final table, primary and mirrored together, are in
\* ascending lexicographic order of (Reporter, Partner, Year, Tradeflow), the
\* partner compared by its final label ("Rest of World") and the flow by its
\* label ("Export" before "Import"); "World" is renamed and nothing else.
C8_SortedOutput ==
    TableWritten =>
        /\ \A i \in 1..(Len(out) - 1) : KeyLE(out[i], out[i + 1])
        /\ \A i \in 1..Len(out) :
            out[i].Partner \in
                (Range(BASE_PARTNERS) \cup {"European Union", "Rest of World"})

\* a written table where "Rest of World" sits between the mirrored
\* "European Union" partner and "Russian Federation", and "Export" precedes "Import"
C8_Witness ==
    /\ TableWritten
    /\ \E i \in 2..(Len(out) - 1) :
        /\ out[i].Partner = "Rest of World"
        /\ out[i].Tradeflow = "Import"
        /\ out[i - 1].Tradeflow = "Export"
        /\ out[i - 2].Partner = "European Union"
        /\ out[i + 1].Partner = "Russian Federation"
        /\ out[i + 1].Reporter = out[i - 2].Reporter

\* the table step of the run has been taken
BuildTaken == pos > NumIterations /\ pc \in {"done", "failed"}

ExpectedPartners(r) ==
    IF r = "European Union"
    THEN {"United States", "China", "Russian Federation", "Canada", "Argentina",
          "Chile", "Rest of World"}
    ELSE ({"United States", "China", "Russian Federation", "Canada", "Argentina",
           "Chile"} \ {r}) \cup {"Rest of World", "European Union"}

\* C10: in the final table every key (Reporter, Partner, Year, Tradeflow) occurs
\* in at most one row, no primary row has the partner "European Union", and each
\* reporter has exactly one row per year and flow for each of exactly 7
\* partners: the six base partners and "Rest of World" for the European Union,
\* the five other base partners, "Rest of World" and "European Union" otherwise.
C10_UniqueKeys ==
    TableWritten =>
        /\ \A i, j \in 1..Len(out) :
            ( /\ out[i].Reporter = out[j].Reporter
              /\ out[i].Partner = out[j].Partner
              /\ out[i].Year = out[j].Year
              /\ out[i].Tradeflow = out[j].Tradeflow ) => i = j
        /\ \A i \in 1..Len(PrimaryRows) : PrimaryRows[i].Partner # "European Union"
        /\ \A i \in 1..Len(out) : out[i].Reporter \in Range(REPORTERS)
        /\ \A r \in Range(REPORTERS), y \in Range(YEARS), l \in {"Import", "Export"} :
            LET mine == {i \in 1..Len(out) :
                            /\ out[i].Reporter = r
                            /\ out[i].Year = y
                            /\ out[i].Tradeflow = l}
            IN  /\ {out[i].Partner : i \in mine} = ExpectedPartners(r)
                /\ Cardinality(mine) = 7

\* a written table holding primary and mirrored rows of a non-EU reporter
C10_Witness ==
    /\ TableWritten
    /\ Len(out) = 7 * Len(REPORTERS) * Len(YEARS) * Len(FLOWS)
    /\ \E i, j \in 1..Len(out) :
        /\ out[i].Reporter = "China" /\ out[i].Partner = "European Union"
        /\ out[j].Reporter = "China" /\ out[j].Partner = "Rest of World"

====
